---- MODULE Spec2Model ----
(***************************************************************************)
(* The card board of cat-words: the App component (live cards, history,    *)
(* z-order, print timer, archive drop zone) and the DraggableCard          *)
(* component (typing animation, pointer drag, delayed discard).            *)
(*                                                                         *)
(* React state is modelled as variables.  Every event handler runs to      *)
(* completion and the board is re-rendered before the next event, so a     *)
(* handler reads the current state; a setTimeout callback reads the state  *)
(* captured by the render in which it was scheduled, which is kept in the  *)
(* timer record.                                                           *)
(***************************************************************************)
EXTENDS Integers, Sequences, FiniteSets

VARIABLES
    cards,                \* App: useState<CardData[]>   (live collection)
    history,              \* App: useState<CardData[]>   (archive)
    maxCards,             \* App: useState(loadSettings().maxCards)
    maxZIndex,            \* App: useState(1)
    isPrinting,           \* App: useState(false)
    isDraggingToHistory,  \* App: useState(false)
    selectedCard,         \* App: useState<CardData | null>(null)
    printTimers,          \* pending setTimeout closures of handlePrint
    removeTimers,         \* pending setTimeout closures of handleRemoveClick
    clock,                \* Date.now()
    comp,                 \* state of the mounted DraggableCard of each live id
    batch,                \* Typewriter: isBatchPrinting and the handlePrintAll loop
    gen                   \* Typewriter: isGenerating, the pending request, inputText

vars == <<cards, history, maxCards, maxZIndex, isPrinting,
          isDraggingToHistory, selectedCard, printTimers, removeTimers,
          clock, comp, batch, gen>>

----------------------------------------------------------------------------
(* Bounds of the model *)

MaxPrints == 2      \* number of cards ever created
MaxZ == 4           \* cap of the z-index counter
MaxSetting == 2     \* largest maxCards value the settings panel is given
MaxFifoPrints == 4  \* number of cards created under SpecFifo and SpecPrint
MaxFifoZ == 6       \* cap of the z-index counter under SpecFifo
MaxDragPrints == 2  \* number of cards created under SpecDrag
MaxDragZ == 5       \* cap of the z-index counter under SpecDrag
MaxTypingPrints == 2  \* number of cards created under SpecTyping
MaxChecklistPrints == 2  \* number of cards created under SpecChecklist
MaxStorePrints == 2  \* number of cards created under SpecStore
MaxSubmitPrints == 4  \* number of cards created under SpecSubmit
MaxBatchMessages == 2  \* messages of a batch (PREDEFINED_MESSAGES has 5)
RandomSteps == 6     \* Math.random() takes the values k / RandomSteps
MaxStoreZ == 4       \* cap of the z-index counter under SpecStore
MaxBoardPrints == 3  \* number of cards created under SpecBoard
MaxBoardZ == 6       \* cap of the z-index counter under SpecBoard
MaxCancelPrints == 2  \* number of cards created under SpecCancel
MaxCancelZ == 5       \* cap of the z-index counter under SpecCancel
MaxOrderPrints == 3   \* number of cards created under SpecOrder
MaxOrderZ == 4        \* cap of the z-index counter under SpecOrder

----------------------------------------------------------------------------
(* Program constants *)

MAX_TYPING_LENGTH == 80
SliderMin == 1
DropTolerance == 30
CardCenterX == 144
CardCenterY == 100
SpawnOffsetX == 128
RestoreOffsetX == 144
SpawnOffsetY == 380
FeedTravel == 40
InitialMaxZIndex == 1
WindowWidth == 1280
WindowHeight == 800

\* the characters of a card text that the code looks at
BOX == "[]"         \* U+25A1, the checklist marker
NL == "\n"
SP == " "

----------------------------------------------------------------------------
(* Sequences *)

Ids(s) == {s[i].id : i \in 1..Len(s)}

IdSeq(s) == [i \in 1..Len(s) |-> s[i].id]

Take(s, n) == SubSeq(s, 1, n)

Drop(s, n) == SubSeq(s, n + 1, Len(s))

\* Array.prototype.find: the first element with the id, as a set of 0 or 1
Find(s, id) ==
    LET hits == {i \in 1..Len(s) : s[i].id = id}
    IN  IF hits = {} THEN {}
        ELSE {s[CHOOSE i \in hits : \A j \in hits : i <= j]}

NoCard == [id |-> 0]

----------------------------------------------------------------------------
(* Card text.  A text is a sequence of characters (String); text.length is Len. *)

\* String.prototype.includes("□")
Includes(text, ch) == \E i \in 1..Len(text) : text[i] = ch

\* String.prototype.split("\n")
RECURSIVE Split(_)
Split(text) ==
    IF \A i \in 1..Len(text) : text[i] # NL THEN <<text>>
    ELSE LET k == CHOOSE i \in 1..Len(text) :
                      text[i] = NL /\ \A j \in 1..(i - 1) : text[j] # NL
         IN  <<Take(text, k - 1)>> \o Split(Drop(text, k))

\* String.prototype.trim, for the white space the model texts contain
RECURSIVE TrimStart(_)
TrimStart(line) ==
    IF line # <<>> /\ Head(line) = SP THEN TrimStart(Tail(line)) ELSE line

\* line.trim().startsWith("□")
IsTodoLine(line) == LET t == TrimStart(line) IN t # <<>> /\ Head(t) = BOX

\* Number.prototype.toString of a line index
Digits == <<"0", "1", "2", "3", "4", "5", "6", "7", "8", "9">>

IndexKey(idx) == Digits[idx + 1]

NoTodoStates == [k \in {} |-> FALSE]     \* todoStates is undefined

\* todoStates?.[idx.toString()] || false
IsCompleted(todoStates, idx) ==
    IndexKey(idx) \in DOMAIN todoStates /\ todoStates[IndexKey(idx)]

\* mutant: the other entries of todoStates are not spread into the new object
SetTodoAlone(todoStates, lineIndex, completed) ==
    [k \in {IndexKey(lineIndex)} |-> completed]

\* { ...todoStates, [lineIndex.toString()]: completed }
SetTodo(todoStates, lineIndex, completed) ==
    [k \in DOMAIN todoStates \cup {IndexKey(lineIndex)} |->
        IF k = IndexKey(lineIndex) THEN completed ELSE todoStates[k]]

\* mutant: the truncated text is not given its ellipsis
TypingTextNoEllipsis(text) ==
    IF Len(text) > MAX_TYPING_LENGTH
    THEN Take(text, MAX_TYPING_LENGTH)
    ELSE text

\* the text the typing effect animates
TypingText(text) ==
    IF Len(text) > MAX_TYPING_LENGTH
    THEN Take(text, MAX_TYPING_LENGTH) \o <<".", ".", ".">>
    ELSE text

----------------------------------------------------------------------------
(* Geometry.  A position is <<x, y>> in pixels. *)

Plus(p, q) == <<p[1] + q[1], p[2] + q[2]>>

Minus(p, q) == <<p[1] - q[1], p[2] - q[2]>>

Abs(n) == IF n < 0 THEN -n ELSE n

\* getBoundingClientRect() of the archive button (top right of the window)
HistoryZone ==
    [left |-> WindowWidth - 180, right |-> WindowWidth - 138,
     top |-> 32, bottom |-> 74]

\* isOverDropZone of handleCardDrag
OverDropZone(currentPos) ==
    LET cardCenterX == currentPos[1] + CardCenterX
        cardCenterY == currentPos[2] + CardCenterY
    IN  /\ cardCenterX >= HistoryZone.left - DropTolerance
        /\ cardCenterX <= HistoryZone.right + DropTolerance
        /\ cardCenterY >= HistoryZone.top - DropTolerance
        /\ cardCenterY <= HistoryZone.bottom + DropTolerance

SpawnPosition(jx, jy) ==
    <<WindowWidth \div 2 - SpawnOffsetX + jx, WindowHeight - SpawnOffsetY + jy>>

RestorePosition(jx, jy) ==
    <<WindowWidth \div 2 - RestoreOffsetX + jx, WindowHeight - SpawnOffsetY + jy>>

\* feedOffset of getDynamicStyle: (1 - progress) * 40, in whole pixels
FeedOffset(typedLen, targetLen) ==
    LET den == IF targetLen = 0 THEN 1 ELSE targetLen
        shown == IF typedLen > den THEN den ELSE typedLen
    IN  (FeedTravel * (den - shown)) \div den

\* How far the bounding box of the 288 x 200 card, rotated about its centre
\* by the card's rotation (whole degrees), reaches beyond the unrotated box.
RotationInset(rotation) ==
    IF Abs(rotation) = 0 THEN <<0, 0>>
    ELSE IF Abs(rotation) = 1 THEN <<2, 3>>
    ELSE <<3, 5>>

----------------------------------------------------------------------------
(* The DraggableCard component of a live card *)

\* state of a component after it mounted and its effects ran
FreshComp(card) ==
    [typedContent |-> <<>>,
     isTyping |-> Len(TypingText(card.text)) > 0,
     isDragging |-> FALSE,
     isExiting |-> FALSE,
     dragOffset |-> <<0, 0>>,
     pointerDownAt |-> <<0, 0>>,
     lastMove |-> <<>>,
     style |-> card.position]

\* mutant: the component of a card that left the list stays mounted
ReconcileKeepsDeparted(newCards) ==
    [id \in Ids(newCards) \cup DOMAIN comp |->
        IF id \in DOMAIN comp THEN comp[id]
        ELSE FreshComp(CHOOSE c \in Find(newCards, id) : TRUE)]

\* React keeps the component of a card that stays in the list (key = id),
\* mounts one for a card that enters and unmounts the one of a card that left
Reconcile(newCards) ==
    [id \in Ids(newCards) |->
        IF id \in DOMAIN comp THEN comp[id]
        ELSE FreshComp(CHOOSE c \in Find(newCards, id) : TRUE)]

\* top-left corner of cardRef.current.getBoundingClientRect(): the styled
\* position moved by the transform (feed translation while typing, rotation)
RectOrigin(card, c) ==
    LET feed == IF c.isTyping /\ ~c.isDragging
                THEN FeedOffset(Len(c.typedContent), Len(TypingText(card.text)))
                ELSE 0
    IN  Plus(Minus(c.style, RotationInset(card.rotation)), <<0, feed>>)

----------------------------------------------------------------------------
(* The text source (generateWithPrompt).  A JavaScript value is a record  *)
(* of its type and, for a string, its characters.                         *)

Str(chars) == [type |-> "string", value |-> chars]

Undefined == [type |-> "undefined", value |-> <<>>]

Number == [type |-> "number", value |-> <<>>]

\* the string of the catch block of generateWithPrompt
FALLBACK ==
    <<"C", "o", "n", "n", "e", "c", "t", "i", "o", "n", " ", "l", "o", "s",
    "t", ".", ".", ".", " ", "s", "i", "g", "n", "a", "l", " ", "w", "e",
    "a", "k", ".">>

\* the string generateWithCustomAPI returns for a reply without content
INK_DEPLETED ==
    <<"S", "y", "s", "t", "e", "m", " ", "E", "r", "r", "o", "r", ":", " ",
    "I", "n", "k", " ", "d", "e", "p", "l", "e", "t", "e", "d", ".">>

\* String.prototype.trim
RECURSIVE TrimEnd(_)
TrimEnd(line) ==
    IF line # <<>> /\ line[Len(line)] = SP
    THEN TrimEnd(SubSeq(line, 1, Len(line) - 1)) ELSE line

Trim(line) == TrimEnd(TrimStart(line))

\* Array.prototype.join("\n")
RECURSIVE Join(_)
Join(lines) ==
    IF lines = <<>> THEN <<>>
    ELSE IF Len(lines) = 1 THEN lines[1]
    ELSE lines[1] \o <<NL>> \o Join(Tail(lines))

\* list[index] of a JavaScript array of strings
Element(list, index) ==
    IF index + 1 \in DOMAIN list THEN Str(list[index + 1]) ELSE Undefined

\* Array.prototype.slice(from, to)
Slice(list, from, to) ==
    SubSeq(list, from + 1, IF to > Len(list) THEN Len(list) ELSE to)

\* Math.floor(Math.random() * length), Math.random() being k / RandomSteps
RandomIndex(k, length) == (k * length) \div RandomSteps

\* the settled state of a promise
Resolved(v) == [rejected |-> FALSE, value |-> v]

Rejected == [rejected |-> TRUE, value |-> Undefined]

\* the lists of the demo mode, shortened
DEMO_RESPONSES == <<<<"r", "0">>, <<"r", "1">>, <<"r", "2">>>>

DEMO_TODO_LISTS == <<<<BOX, "t", "0", NL, BOX, "u">>, <<BOX, "t", "1">>>>

TodoTemplate == <<<<BOX, "w", "0">>, <<BOX, "w", "1">>, <<BOX, "w", "2">>>>

DefaultTodoList == <<BOX, "d", NL, BOX, "e">>

\* generateWithCustomAPI for an outcome of the fetch
GenerateWithCustomAPI(outcome) ==
    IF outcome.kind \in {"network", "status", "json"} THEN Rejected
    ELSE IF outcome.content.type = "undefined" THEN Resolved(Str(INK_DEPLETED))
    ELSE IF outcome.content.type # "string" THEN Rejected
    ELSE IF Trim(outcome.content.value) = <<>> THEN Resolved(Str(INK_DEPLETED))
    ELSE Resolved(Str(Trim(outcome.content.value)))

\* generateTodoListFromTopic, k / RandomSteps the value of Math.random()
GenerateTodoListFromTopic(topic, k) ==
    IF topic.topic
    THEN LET randomIndex == RandomIndex(k, Len(TodoTemplate))
         IN  Str(Join(Slice(TodoTemplate, randomIndex, randomIndex + 5)))
    ELSE IF topic.todo \/ topic.daiban \/ topic.plan
    THEN Element(DEMO_TODO_LISTS, RandomIndex(k, Len(DEMO_TODO_LISTS)))
    ELSE Str(DefaultTodoList)

\* mutant: generateWithPrompt awaits the API outside of a try block
GenerateWithPromptNoCatch(settings, promptContent, outcome, k) ==
    IF settings.apiUrl /\ settings.apiToken
    THEN GenerateWithCustomAPI(outcome)
    ELSE IF promptContent.todo \/ promptContent.daiban
    THEN Resolved(GenerateTodoListFromTopic(promptContent, k))
    ELSE Resolved(Element(DEMO_RESPONSES, RandomIndex(k, Len(DEMO_RESPONSES))))

\* generateWithPrompt: the settled state of the promise it returns
GenerateWithPrompt(settings, promptContent, outcome, k) ==
    IF settings.apiUrl /\ settings.apiToken
    THEN LET api == GenerateWithCustomAPI(outcome)
         IN  IF api.rejected THEN Resolved(Str(FALLBACK)) ELSE api
    ELSE IF promptContent.todo \/ promptContent.daiban
    THEN Resolved(GenerateTodoListFromTopic(promptContent, k))
    ELSE Resolved(Element(DEMO_RESPONSES, RandomIndex(k, Len(DEMO_RESPONSES))))

\* a promise that has not settled
Pending == [rejected |-> FALSE, value |-> Undefined]

\* the Typewriter with no request pending and an empty input
NoRequest ==
    [isGenerating |-> FALSE,
     settings |-> [apiUrl |-> FALSE, apiToken |-> FALSE],
     promptContent |-> [todo |-> FALSE, daiban |-> FALSE, plan |-> FALSE,
                        topic |-> FALSE],
     settled |-> Resolved(Str(<<>>))]

\* Typewriter.handleAiGenerate up to its await
HandleAiGenerate(settings, promptContent) ==
    /\ ~gen.isGenerating
    /\ ~isPrinting
    /\ ~batch.on
    /\ selectedCard = NoCard
    /\ gen' = [isGenerating |-> TRUE, settings |-> settings,
               promptContent |-> promptContent, settled |-> Pending]
    /\ UNCHANGED <<batch, cards, history, maxCards, maxZIndex, isPrinting,
                   isDraggingToHistory, selectedCard, printTimers,
                   removeTimers, clock, comp>>

\* the promise of generateWithPrompt settles; handleAiGenerate continues
\* (setInputText, setIsGenerating(false)) if it resolved
GenerateSettles(outcome, k) ==
    /\ gen.isGenerating
    /\ gen.settled = Pending
    /\ LET p == GenerateWithPrompt(gen.settings, gen.promptContent, outcome, k)
       IN  gen' = [gen EXCEPT !.settled = p,
                              !.isGenerating = p.rejected]
    /\ UNCHANGED <<batch, cards, history, maxCards, maxZIndex, isPrinting,
                   isDraggingToHistory, selectedCard, printTimers,
                   removeTimers, clock, comp>>

\* the generated text is cleared from the input (handleInputChange)
ClearInput ==
    /\ ~gen.isGenerating
    /\ gen # NoRequest
    /\ gen' = NoRequest
    /\ UNCHANGED <<batch, cards, history, maxCards, maxZIndex, isPrinting,
                   isDraggingToHistory, selectedCard, printTimers,
                   removeTimers, clock, comp>>

----------------------------------------------------------------------------
(* App *)

\* mutant: the overflow check is missing
InsertLiveKeepAll(prev, newCard, limit) ==
    [cards |-> Append(prev, newCard), overflow |-> <<>>]

\* mutant: the overflow is taken from the end of the list
InsertLiveDropNewest(prev, newCard, limit) ==
    LET newCards == Append(prev, newCard)
        excess == IF Len(newCards) > limit THEN Len(newCards) - limit ELSE 0
    IN  [cards |-> Take(newCards, Len(newCards) - excess),
         overflow |-> Drop(newCards, Len(newCards) - excess)]

\* the updater of setCards in handlePrint and handleRestoreFromHistory:
\* the new live list and the overflow handed to setHistory
InsertLive(prev, newCard, limit) ==
    LET newCards == Append(prev, newCard)
        excess == IF Len(newCards) > limit THEN Len(newCards) - limit ELSE 0
    IN  [cards |-> Drop(newCards, excess), overflow |-> Take(newCards, excess)]

\* the Typewriter outside handlePrintAll: isBatchPrinting is false
NoBatch ==
    [on |-> FALSE, left |-> 0, wait |-> "idle", maxZIndex |-> 0, maxCards |-> 0]

\* a message of PREDEFINED_MESSAGES
BatchText == <<"b">>

\* mutant: the print button does not look at isPrinting
SubmitWhilePrinting(text) ==
    /\ TrimStart(text) # <<>>
    /\ ~batch.on
    /\ selectedCard = NoCard
    /\ isPrinting' = TRUE
    /\ printTimers' = Append(printTimers,
           [text |-> text, maxZIndex |-> maxZIndex, maxCards |-> maxCards])
    /\ UNCHANGED <<gen, batch, cards, history, maxCards, maxZIndex,
                   isDraggingToHistory, selectedCard, removeTimers, clock, comp>>

\* Typewriter.handlePrintClick -> App.handlePrint
Submit(text) ==
    /\ TrimStart(text) # <<>>
    /\ ~isPrinting
    /\ ~gen.isGenerating
    /\ ~batch.on
    /\ selectedCard = NoCard
    /\ isPrinting' = TRUE
    /\ printTimers' = Append(printTimers,
           [text |-> text, maxZIndex |-> maxZIndex, maxCards |-> maxCards])
    /\ UNCHANGED <<gen, batch, cards, history, maxCards, maxZIndex, isDraggingToHistory,
                   selectedCard, removeTimers, clock, comp>>

\* mutant: the insert does not advance the z-index counter
PrintTimerKeepsMax(jx, jy, rotation) ==
    /\ printTimers # <<>>
    /\ LET t == Head(printTimers)
           newCard == [id |-> clock,
                       text |-> t.text,
                       position |-> SpawnPosition(jx, jy),
                       zIndex |-> t.maxZIndex + 1,
                       rotation |-> rotation,
                       todoStates |-> NoTodoStates]
           r == InsertLive(cards, newCard, t.maxCards)
       IN  /\ cards' = r.cards
           /\ history' = history \o r.overflow
           /\ comp' = Reconcile(r.cards)
    /\ isPrinting' = FALSE
    /\ printTimers' = Tail(printTimers)
    /\ clock' = clock + 1
    /\ UNCHANGED <<gen, batch, maxCards, maxZIndex, isDraggingToHistory,
                   selectedCard, removeTimers>>

\* the setTimeout callback of handlePrint
PrintTimer(jx, jy, rotation) ==
    /\ printTimers # <<>>
    /\ LET t == Head(printTimers)
           newCard == [id |-> clock,
                       text |-> t.text,
                       position |-> SpawnPosition(jx, jy),
                       zIndex |-> t.maxZIndex + 1,
                       rotation |-> rotation,
                       todoStates |-> NoTodoStates]
           r == InsertLive(cards, newCard, t.maxCards)
       IN  /\ cards' = r.cards
           /\ history' = history \o r.overflow
           /\ comp' = Reconcile(r.cards)
    /\ maxZIndex' = maxZIndex + 1
    /\ isPrinting' = FALSE
    /\ printTimers' = Tail(printTimers)
    /\ clock' = clock + 1
    /\ UNCHANGED <<gen, batch, maxCards, isDraggingToHistory, selectedCard, removeTimers>>

\* Typewriter.handlePrintAll up to its first await: the loop keeps the onPrint
\* of this render, that is, handlePrint with this render's maxZIndex and maxCards
HandlePrintAll(messages) ==
    /\ ~isPrinting
    /\ ~gen.isGenerating
    /\ ~batch.on
    /\ selectedCard = NoCard
    /\ messages > 0
    /\ batch' = [on |-> TRUE, left |-> messages, wait |-> "typing",
                 maxZIndex |-> maxZIndex, maxCards |-> maxCards]
    /\ UNCHANGED <<gen, cards, history, maxCards, maxZIndex, isPrinting,
                   isDraggingToHistory, selectedCard, printTimers,
                   removeTimers, clock, comp>>

\* handlePrintAll after the 600 ms await: onPrint(msg) -> App.handlePrint
BatchPrint ==
    /\ batch.on
    /\ batch.wait = "typing"
    /\ isPrinting' = TRUE
    /\ printTimers' = Append(printTimers,
           [text |-> BatchText, maxZIndex |-> batch.maxZIndex,
            maxCards |-> batch.maxCards])
    /\ batch' = [batch EXCEPT !.wait = "gap"]
    /\ UNCHANGED <<gen, cards, history, maxCards, maxZIndex, isDraggingToHistory,
                   selectedCard, removeTimers, clock, comp>>

\* handlePrintAll after the 1200 ms await: the next message, or the end of the
\* loop.  The 400 ms timer of handlePrint was started before this one and is
\* shorter, so it has fired.
BatchNext ==
    /\ batch.on
    /\ batch.wait = "gap"
    /\ \A i \in 1..Len(printTimers) : printTimers[i].text # BatchText
    /\ batch' = IF batch.left > 1
                THEN [batch EXCEPT !.left = batch.left - 1, !.wait = "typing"]
                ELSE NoBatch
    /\ UNCHANGED <<gen, cards, history, maxCards, maxZIndex, isPrinting,
                   isDraggingToHistory, selectedCard, printTimers,
                   removeTimers, clock, comp>>

\* mutant: the restored card is built as a new card, its checklist state lost
RestoreAsNewCard(i, jx, jy) ==
    /\ i \in 1..Len(history)
    /\ selectedCard = NoCard
    /\ LET card == history[i]
           newCard == [card EXCEPT !.position = RestorePosition(jx, jy),
                                   !.zIndex = maxZIndex + 1,
                                   !.todoStates = NoTodoStates]
           r == InsertLive(cards, newCard, maxCards)
       IN  /\ cards' = r.cards
           /\ history' = SelectSeq(history, LAMBDA c : c.id # card.id) \o r.overflow
           /\ comp' = Reconcile(r.cards)
    /\ maxZIndex' = maxZIndex + 1
    /\ UNCHANGED <<gen, batch, maxCards, isPrinting, isDraggingToHistory, selectedCard,
                   printTimers, removeTimers, clock>>

\* mutant: the restore appends without the overflow check
RestoreNoOverflow(i, jx, jy) ==
    /\ i \in 1..Len(history)
    /\ selectedCard = NoCard
    /\ LET card == history[i]
           newCard == [card EXCEPT !.position = RestorePosition(jx, jy),
                                   !.zIndex = maxZIndex + 1]
       IN  /\ cards' = Append(cards, newCard)
           /\ history' = SelectSeq(history, LAMBDA c : c.id # card.id)
           /\ comp' = Reconcile(Append(cards, newCard))
    /\ maxZIndex' = maxZIndex + 1
    /\ UNCHANGED <<gen, batch, maxCards, isPrinting, isDraggingToHistory, selectedCard,
                   printTimers, removeTimers, clock>>

\* App.handleRestoreFromHistory, given the card of the clicked row
RestoreCard(card, jx, jy) ==
    /\ LET newCard == [card EXCEPT !.position = RestorePosition(jx, jy),
                                   !.zIndex = maxZIndex + 1]
           r == InsertLive(cards, newCard, maxCards)
       IN  /\ cards' = r.cards
           /\ history' = SelectSeq(history, LAMBDA c : c.id # card.id) \o r.overflow
           /\ comp' = Reconcile(r.cards)
    /\ maxZIndex' = maxZIndex + 1
    /\ UNCHANGED <<gen, batch, maxCards, isPrinting, isDraggingToHistory, selectedCard,
                   printTimers, removeTimers, clock>>

\* HistoryPanel row onClick -> App.handleRestoreFromHistory
HandleRestoreFromHistory(i, jx, jy) ==
    /\ i \in 1..Len(history)
    /\ selectedCard = NoCard
    /\ RestoreCard(history[i], jx, jy)

\* SettingsPanel.handleSave -> App.handleSettingsChange
HandleSettingsChange(n) ==
    /\ selectedCard = NoCard
    /\ maxCards' = n
    /\ UNCHANGED <<gen, batch, cards, history, maxZIndex, isPrinting, isDraggingToHistory,
                   selectedCard, printTimers, removeTimers, clock, comp>>

\* mutant: the card is given the current maximum, not the next one
RaiseCardToCurrentMax(prev, id, newMax) ==
    [i \in 1..Len(prev) |->
        IF prev[i].id = id THEN [prev[i] EXCEPT !.zIndex = newMax - 1] ELSE prev[i]]

\* mutant: the raised card also moves to the end of the list
RaiseCardToEnd(prev, id, newMax) ==
    SelectSeq(prev, LAMBDA c : c.id # id)
        \o [i \in 1..Len(SelectSeq(prev, LAMBDA c : c.id = id)) |->
               [SelectSeq(prev, LAMBDA c : c.id = id)[i] EXCEPT !.zIndex = newMax]]

\* the updater of setCards in bringToFront
RaiseCard(prev, id, newMax) ==
    [i \in 1..Len(prev) |->
        IF prev[i].id = id THEN [prev[i] EXCEPT !.zIndex = newMax] ELSE prev[i]]

\* the updater of setCards in updateCardPosition
MoveCard(prev, id, newPos) ==
    [i \in 1..Len(prev) |->
        IF prev[i].id = id THEN [prev[i] EXCEPT !.position = newPos] ELSE prev[i]]

\* the updater of setCards in handleTodoStateChange
ToggleCard(prev, cardId, lineIndex, completed) ==
    [i \in 1..Len(prev) |->
        IF prev[i].id = cardId
        THEN [prev[i] EXCEPT
                 !.todoStates = SetTodo(prev[i].todoStates, lineIndex, completed)]
        ELSE prev[i]]

\* mutant: the filter keeps the card
WithoutCardKeepsIt(prev, id) == prev

\* the updater of setCards in handleCardDragEnd and handleRemoveCard
WithoutCard(prev, id) == SelectSeq(prev, LAMBDA c : c.id # id)

\* App.bringToFront
BringToFront(id) ==
    /\ maxZIndex' = maxZIndex + 1
    /\ cards' = RaiseCard(cards, id, maxZIndex + 1)
    /\ UNCHANGED <<gen, batch, history, maxCards, isPrinting, isDraggingToHistory,
                   selectedCard, printTimers, removeTimers, clock, comp>>

\* App.updateCardPosition, and the position sync effect of the card's component
UpdateCardPosition(id, newPos) ==
    /\ cards' = MoveCard(cards, id, newPos)
    /\ comp' = [c \in DOMAIN comp |->
                   IF c = id /\ ~comp[c].isDragging
                   THEN [comp[c] EXCEPT !.style = newPos] ELSE comp[c]]
    /\ UNCHANGED <<gen, batch, history, maxCards, maxZIndex, isPrinting,
                   isDraggingToHistory, selectedCard, printTimers,
                   removeTimers, clock>>

\* App.handleCardDrag
HandleCardDrag(id, currentPos) ==
    /\ isDraggingToHistory' = OverDropZone(currentPos)
    /\ UNCHANGED <<gen, batch, cards, history, maxCards, maxZIndex, isPrinting,
                   selectedCard, printTimers, removeTimers, clock, comp>>

\* mutant: the archive does not test that the card was found
HandleCardDragEndAnyId(id) ==
    /\ history' = IF isDraggingToHistory
                  THEN Append(history, [id |-> id]) ELSE history
    /\ cards' = IF isDraggingToHistory THEN WithoutCard(cards, id) ELSE cards
    /\ comp' = [c \in DOMAIN comp \ (IF isDraggingToHistory THEN {id} ELSE {})
                   |-> comp[c]]
    /\ isDraggingToHistory' = FALSE
    /\ UNCHANGED <<gen, batch, maxCards, maxZIndex, isPrinting, selectedCard,
                   printTimers, removeTimers, clock>>

\* App.handleCardDragEnd
HandleCardDragEnd(id) ==
    /\ LET found == Find(cards, id)
           archive == isDraggingToHistory /\ found # {}
       IN  /\ history' = IF archive
                         THEN Append(history, CHOOSE c \in found : TRUE)
                         ELSE history
           /\ cards' = IF archive THEN WithoutCard(cards, id) ELSE cards
           /\ comp' = [c \in DOMAIN comp \ (IF archive THEN {id} ELSE {})
                          |-> comp[c]]
    /\ isDraggingToHistory' = FALSE
    /\ UNCHANGED <<gen, batch, maxCards, maxZIndex, isPrinting, selectedCard,
                   printTimers, removeTimers, clock>>

\* DraggableCard.handlePointerDown with the pointer at p0 -> App.bringToFront
PointerDown(id, p0) ==
    /\ id \in DOMAIN comp
    /\ ~comp[id].isDragging
    /\ selectedCard = NoCard
    /\ LET newMax == maxZIndex + 1
           card == CHOOSE c \in Find(cards, id) : TRUE
       IN  /\ maxZIndex' = newMax
           /\ cards' = RaiseCard(cards, id, newMax)
           /\ comp' = [comp EXCEPT ![id].isDragging = TRUE,
                                   ![id].dragOffset =
                                       Minus(p0, RectOrigin(card, comp[id])),
                                   ![id].pointerDownAt = p0,
                                   ![id].lastMove = <<>>]
    /\ UNCHANGED <<gen, batch, history, maxCards, isPrinting, isDraggingToHistory,
                   selectedCard, printTimers, removeTimers, clock>>

\* the position handlePointerMove writes to the element and reports to onDrag
DragPosition(c, p) == Minus(p, c.dragOffset)

\* mutant: every move commits the position (updateCardPosition)
PointerMoveCommits(id, p) ==
    /\ id \in DOMAIN comp
    /\ comp[id].isDragging
    /\ comp' = [comp EXCEPT ![id].style = DragPosition(comp[id], p),
                            ![id].lastMove = p]
    /\ cards' = MoveCard(cards, id, DragPosition(comp[id], p))
    /\ isDraggingToHistory' = OverDropZone(DragPosition(comp[id], p))
    /\ UNCHANGED <<gen, batch, history, maxCards, maxZIndex, isPrinting,
                   selectedCard, printTimers, removeTimers, clock>>

\* DraggableCard.handlePointerMove with the pointer at p -> App.handleCardDrag
PointerMove(id, p) ==
    /\ id \in DOMAIN comp
    /\ comp[id].isDragging
    /\ comp' = [comp EXCEPT ![id].style = DragPosition(comp[id], p),
                            ![id].lastMove = p]
    /\ isDraggingToHistory' = OverDropZone(DragPosition(comp[id], p))
    /\ UNCHANGED <<gen, batch, cards, history, maxCards, maxZIndex, isPrinting,
                   selectedCard, printTimers, removeTimers, clock>>

\* DraggableCard.handlePointerUp -> App.updateCardPosition, App.handleCardDragEnd
PointerUp(id) ==
    /\ id \in DOMAIN comp
    /\ comp[id].isDragging
    /\ LET final == comp[id].style
           found == Find(cards, id)
           archive == isDraggingToHistory /\ found # {}
           moved == MoveCard(cards, id, final)
           live == IF archive THEN WithoutCard(moved, id) ELSE moved
       IN  /\ cards' = live
           /\ history' = IF archive
                         THEN Append(history, CHOOSE c \in found : TRUE)
                         ELSE history
           /\ comp' = [c \in Ids(live) |->
                          IF c = id THEN [comp[c] EXCEPT !.isDragging = FALSE,
                                                         !.pointerDownAt = <<0, 0>>,
                                                         !.lastMove = <<>>,
                                                         !.style = final]
                          ELSE comp[c]]
    /\ isDraggingToHistory' = FALSE
    /\ UNCHANGED <<gen, batch, maxCards, maxZIndex, isPrinting, selectedCard, printTimers,
                   removeTimers, clock>>

\* App.handleTodoStateChange
HandleTodoStateChange(cardId, lineIndex, completed) ==
    /\ cards' = ToggleCard(cards, cardId, lineIndex, completed)
    /\ selectedCard' =
           IF selectedCard # NoCard /\ selectedCard.id = cardId
           THEN [selectedCard EXCEPT
                    !.todoStates = SetTodo(selectedCard.todoStates,
                                           lineIndex, completed)]
           ELSE selectedCard
    /\ UNCHANGED <<gen, batch, history, maxCards, maxZIndex, isPrinting,
                   isDraggingToHistory, printTimers, removeTimers, clock, comp>>

\* mutant: the onClick does not test line.isTodo
TodoLineClickAnyLine(id, idx) ==
    /\ selectedCard = NoCard
    /\ \E card \in Find(cards, id) :
          /\ Includes(card.text, BOX)
          /\ idx \in 0..(Len(Split(card.text)) - 1)
          /\ HandleTodoStateChange(id, idx, ~IsCompleted(card.todoStates, idx))

\* onClick of line idx of a checklist card on the board
TodoLineClick(id, idx) ==
    /\ selectedCard = NoCard
    /\ \E card \in Find(cards, id) :
          /\ Includes(card.text, BOX)
          /\ idx \in 0..(Len(Split(card.text)) - 1)
          /\ IF IsTodoLine(Split(card.text)[idx + 1])
             THEN HandleTodoStateChange(id, idx,
                      ~IsCompleted(card.todoStates, idx))
             ELSE UNCHANGED vars

\* onClick of line idx in the detail view
ModalLineClick(idx) ==
    /\ selectedCard # NoCard
    /\ Includes(selectedCard.text, BOX)
    /\ idx \in 0..(Len(Split(selectedCard.text)) - 1)
    /\ IF IsTodoLine(Split(selectedCard.text)[idx + 1])
       THEN HandleTodoStateChange(selectedCard.id, idx,
                ~IsCompleted(selectedCard.todoStates, idx))
       ELSE UNCHANGED vars

\* App.handleCardDoubleClick
HandleCardDoubleClick(id) ==
    /\ selectedCard = NoCard
    /\ \E card \in Find(cards, id) : selectedCard' = card
    /\ UNCHANGED <<gen, batch, cards, history, maxCards, maxZIndex, isPrinting,
                   isDraggingToHistory, printTimers, removeTimers, clock, comp>>

\* Escape key, or a click on the backdrop of the detail view
CloseDetail ==
    /\ selectedCard # NoCard
    /\ selectedCard' = NoCard
    /\ UNCHANGED <<gen, batch, cards, history, maxCards, maxZIndex, isPrinting,
                   isDraggingToHistory, printTimers, removeTimers, clock, comp>>

\* mutant: the removed card is put into history
HandleRemoveCardArchives(id, selected) ==
    /\ cards' = WithoutCard(cards, id)
    /\ history' = history \o SelectSeq(cards, LAMBDA c : c.id = id)
    /\ comp' = [c \in Ids(WithoutCard(cards, id)) |-> comp[c]]
    /\ selectedCard' = IF selected # NoCard /\ selected.id = id
                       THEN NoCard ELSE selectedCard
    /\ UNCHANGED <<gen, batch, maxCards, maxZIndex, isPrinting,
                   isDraggingToHistory, printTimers, clock>>

\* App.handleRemoveCard, run by a render in which selectedCard was `selected`
HandleRemoveCard(id, selected) ==
    /\ cards' = WithoutCard(cards, id)
    /\ comp' = [c \in Ids(WithoutCard(cards, id)) |-> comp[c]]
    /\ selectedCard' = IF selected # NoCard /\ selected.id = id
                       THEN NoCard ELSE selectedCard
    /\ UNCHANGED <<gen, batch, history, maxCards, maxZIndex, isPrinting,
                   isDraggingToHistory, printTimers, clock>>

\* the discard button of the detail view
DetailRemove ==
    /\ selectedCard # NoCard
    /\ HandleRemoveCard(selectedCard.id, selectedCard)
    /\ UNCHANGED removeTimers

\* DraggableCard.handleRemoveClick
HandleRemoveClick(id) ==
    /\ id \in DOMAIN comp
    /\ selectedCard = NoCard
    /\ removeTimers' = removeTimers \cup {[id |-> id, selected |-> selectedCard]}
    /\ comp' = [comp EXCEPT ![id].isExiting = TRUE]
    /\ UNCHANGED <<gen, batch, cards, history, maxCards, maxZIndex, isPrinting,
                   isDraggingToHistory, selectedCard, printTimers, clock>>

\* the setTimeout callback of handleRemoveClick
RemoveTimer(t) ==
    /\ t \in removeTimers
    /\ removeTimers' = removeTimers \ {t}
    /\ HandleRemoveCard(t.id, t.selected)

\* the setTimeout callback of the typing effect of a mounted card
TypingTick(id) ==
    /\ id \in DOMAIN comp
    /\ \E card \in Find(cards, id) :
          LET typingText == TypingText(card.text)
              typed == comp[id].typedContent
          IN  /\ Len(typed) < Len(typingText)
              /\ comp' = [comp EXCEPT
                    ![id].typedContent = Take(typingText, Len(typed) + 1),
                    ![id].isTyping = Len(typed) + 1 < Len(typingText)]
    /\ UNCHANGED <<gen, batch, cards, history, maxCards, maxZIndex, isPrinting,
                   isDraggingToHistory, selectedCard, printTimers,
                   removeTimers, clock>>

----------------------------------------------------------------------------
(* Inputs *)

PlainText == <<"a">>

TodoText == <<BOX, NL, "n">>

Jitters == {0}              \* Math.random() * 30 - 15

Settings == SliderMin..MaxSetting

\* where the pointer takes hold of a card, from the corner of its bounding box
Grabs == {<<CardCenterX, CardCenterY>>}

\* pointer positions of move events: above the archive button, mid-board
Pointers == {<<HistoryZone.left + 20, HistoryZone.top + 20>>, <<600, 400>>}

LineIndexes == 0..1

LiveIds == DOMAIN comp

LiveCard(id) == CHOOSE c \in Find(cards, id) : TRUE

\* the cards created so far, the pending prints included
Printed == clock - 1 + Len(printTimers)

----------------------------------------------------------------------------
(* Specification of the board: every operation on the two collections *)

Init ==
    /\ cards = <<>>
    /\ history = <<>>
    /\ maxCards \in Settings
    /\ maxZIndex = InitialMaxZIndex
    /\ isPrinting = FALSE
    /\ isDraggingToHistory = FALSE
    /\ selectedCard = NoCard
    /\ printTimers = <<>>
    /\ removeTimers = {}
    /\ clock = 1
    /\ comp = [id \in {} |-> FreshComp(NoCard)]
    /\ batch = NoBatch
    /\ gen = NoRequest

Printing ==
    \/ /\ Printed < MaxPrints
       /\ maxZIndex + Len(printTimers) < MaxZ
       /\ Submit(TodoText)
    \/ \E jx \in Jitters, jy \in Jitters : PrintTimer(jx, jy, 0)

Restore ==
    \E i \in 1..Len(history), jx \in Jitters, jy \in Jitters :
        maxZIndex < MaxZ /\ HandleRestoreFromHistory(i, jx, jy)

Drag ==
    \/ \E id \in LiveIds, g \in Grabs :
          /\ maxZIndex < MaxZ
          /\ PointerDown(id, Plus(RectOrigin(LiveCard(id), comp[id]), g))
    \/ \E id \in LiveIds, p \in Pointers : PointerMove(id, p)
    \/ \E id \in LiveIds : PointerUp(id)

Checklist == \E id \in LiveIds, idx \in LineIndexes : TodoLineClick(id, idx)

Discard ==
    \/ \E id \in LiveIds : HandleRemoveClick(id)
    \/ \E t \in removeTimers : RemoveTimer(t)

Configure == \E n \in Settings : HandleSettingsChange(n)

Next == Printing \/ Restore \/ Drag \/ Checklist \/ Discard \/ Configure

Spec == Init /\ [][Next]_vars

----------------------------------------------------------------------------
(* Specification of the inserts alone: prints and restores, maxCards fixed *)

Typing == \E id \in LiveIds : TypingTick(id)

FifoPrinting ==
    \/ Printed < MaxFifoPrints /\ Submit(TodoText)
    \/ \E jx \in Jitters, jy \in Jitters : PrintTimer(jx, jy, 0)

FifoRestore ==
    \E i \in 1..Len(history), jx \in Jitters, jy \in Jitters :
        maxZIndex < MaxFifoZ /\ HandleRestoreFromHistory(i, jx, jy)

NextFifo == FifoPrinting \/ FifoRestore \/ Typing

SpecFifo == Init /\ [][NextFifo]_vars

(* Specification of prints alone, on a board that starts empty *)

PrintOnly ==
    \/ \E text \in {PlainText, TodoText} : Printed < MaxFifoPrints /\ Submit(text)
    \/ \E jx \in Jitters, jy \in Jitters : PrintTimer(jx, jy, 0)

NextPrint == PrintOnly \/ Typing \/ Checklist

SpecPrint == Init /\ [][NextPrint]_vars

(* Specification of the drag sessions: cards printed with a rotation, *)
(* pressed while or after they are typed, one pointer per card          *)

\* Math.random() * 4 - 2, in whole degrees
Rotations == {-1, 0, 2}

DragPrinting ==
    \/ Printed < MaxDragPrints /\ Submit(PlainText)
    \/ \E jx \in Jitters, jy \in Jitters, r \in Rotations : PrintTimer(jx, jy, r)

DragSession ==
    \/ \E id \in LiveIds, g \in Grabs :
          /\ maxZIndex < MaxDragZ
          /\ PointerDown(id, Plus(RectOrigin(LiveCard(id), comp[id]), g))
    \/ \E id \in LiveIds, p \in Pointers : PointerMove(id, p)
    \/ \E id \in LiveIds : PointerUp(id)

NextDrag == DragPrinting \/ DragSession \/ Typing

SpecDrag == Init /\ [][NextDrag]_vars

(* Specification of the typing animation: the board holds one live card *)
(* (the default maxCards), printed with a short, a limit-length or a     *)
(* longer text; the 8 ms timer of a mounted card that is still typing    *)
(* fires eventually                                                      *)

LongText(n) == [i \in 1..n |-> Digits[(i % 10) + 1]]

TypingTexts ==
    {LongText(2), LongText(MAX_TYPING_LENGTH), LongText(MAX_TYPING_LENGTH + 1)}

InitTyping == Init /\ maxCards = SliderMin

TypingPrinting ==
    \/ \E text \in TypingTexts : Printed < MaxTypingPrints /\ Submit(text)
    \/ \E jx \in Jitters, jy \in Jitters : PrintTimer(jx, jy, 0)

NextTyping == TypingPrinting \/ Typing

SpecTyping ==
    /\ InitTyping
    /\ [][NextTyping]_vars
    /\ \A id \in 1..MaxTypingPrints : WF_vars(TypingTick(id))

(* Specification of the checklists: cards with two checklist lines and a *)
(* plain line, toggled on the board and in the detail view               *)

ChecklistText == <<BOX, NL, "n", NL, SP, BOX>>

ChecklistLines == 0..2

ChecklistPrinting ==
    \/ Printed < MaxChecklistPrints /\ Submit(ChecklistText)
    \/ \E jx \in Jitters, jy \in Jitters : PrintTimer(jx, jy, 0)

ChecklistClicks ==
    \/ \E id \in LiveIds, idx \in ChecklistLines : TodoLineClick(id, idx)
    \/ \E idx \in ChecklistLines : ModalLineClick(idx)

Detail ==
    \/ \E id \in LiveIds : HandleCardDoubleClick(id)
    \/ CloseDetail

NextChecklist == ChecklistPrinting \/ ChecklistClicks \/ Detail

SpecChecklist == Init /\ [][NextChecklist]_vars

(* Specification of the card store: the handlers of App that take a card *)
(* or an id, called with the cards and ids of the board and with ids     *)
(* that are not, or no longer, in the live collection or in history      *)

StoreIds == 1..(MaxStorePrints + 1)

\* the rows of the history panel, current or stale
StoreRows == {cards[i] : i \in 1..Len(cards)} \cup {history[i] : i \in 1..Len(history)}

\* a position that puts the centre of the card on the archive button
StorePositions == {<<HistoryZone.left - CardCenterX, HistoryZone.top - CardCenterY>>}

StorePrinting ==
    \/ Printed < MaxStorePrints /\ Submit(TodoText)
    \/ \E jx \in Jitters, jy \in Jitters : PrintTimer(jx, jy, 0)

StoreRestore ==
    \E card \in StoreRows, jx \in Jitters, jy \in Jitters :
        maxZIndex < MaxStoreZ /\ RestoreCard(card, jx, jy)

StoreOrder == \E id \in StoreIds : maxZIndex < MaxStoreZ /\ BringToFront(id)

StoreMove ==
    \/ \E id \in StoreIds, p \in StorePositions : UpdateCardPosition(id, p)
    \/ \E id \in StoreIds, p \in StorePositions : HandleCardDrag(id, p)
    \/ \E id \in StoreIds : HandleCardDragEnd(id)

StoreRemove ==
    \E id \in StoreIds :
        HandleRemoveCard(id, selectedCard) /\ UNCHANGED removeTimers

StoreChecklist ==
    \E id \in StoreIds : HandleTodoStateChange(id, 0, TRUE)

NextStore ==
    \/ StorePrinting
    \/ StoreMove
    \/ StoreRemove
    \/ StoreChecklist
    \/ Detail

SpecStore == Init /\ [][NextStore]_vars

(* the same with the two handlers that advance the z-index counter *)

NextStoreOrder == NextStore \/ StoreRestore \/ StoreOrder

SpecStoreOrder == Init /\ [][NextStoreOrder]_vars

(* Specification of the submits: the print button, the batch button and *)
(* the settings panel                                                   *)

Batched == IF batch.on THEN batch.left - (IF batch.wait = "gap" THEN 1 ELSE 0) ELSE 0

ManualPrinting ==
    \/ Printed + Batched < MaxSubmitPrints /\ Submit(PlainText)
    \/ \E jx \in Jitters, jy \in Jitters : PrintTimer(jx, jy, 0)

BatchPrinting ==
    \/ /\ Printed + MaxBatchMessages <= MaxSubmitPrints
       /\ HandlePrintAll(MaxBatchMessages)
    \/ BatchPrint
    \/ BatchNext

NextSubmit == ManualPrinting \/ BatchPrinting \/ Configure

SpecSubmit == Init /\ [][NextSubmit]_vars

(* Specification of the text source: requests with and without a custom *)
(* API, for prompts that do and do not ask for a checklist, and every    *)
(* outcome of the backend call                                           *)

ApiSettings == [apiUrl : BOOLEAN, apiToken : BOOLEAN]

Prompts ==
    {[todo |-> FALSE, daiban |-> FALSE, plan |-> FALSE, topic |-> FALSE],
     [todo |-> TRUE, daiban |-> FALSE, plan |-> FALSE, topic |-> FALSE],
     [todo |-> TRUE, daiban |-> FALSE, plan |-> FALSE, topic |-> TRUE],
     [todo |-> FALSE, daiban |-> TRUE, plan |-> TRUE, topic |-> TRUE]}

\* fetch rejects; the status is not OK; the body is not JSON; the reply
\* has no content, a content that is no string, a blank or a proper content
Outcomes ==
    {[kind |-> "network", content |-> Undefined],
     [kind |-> "status", content |-> Undefined],
     [kind |-> "json", content |-> Undefined],
     [kind |-> "reply", content |-> Undefined],
     [kind |-> "reply", content |-> Number],
     [kind |-> "reply", content |-> Str(<<SP>>)],
     [kind |-> "reply", content |-> Str(<<SP, "o", "k", SP>>)]}

Generating ==
    \/ \E settings \in ApiSettings, promptContent \in Prompts :
          HandleAiGenerate(settings, promptContent)
    \/ \E outcome \in Outcomes, k \in 0..(RandomSteps - 1) :
          GenerateSettles(outcome, k)
    \/ ClearInput

NextSource == Generating

SpecSource == Init /\ [][NextSource]_vars

(* Specification of the board in use: prints with overflow, restores and *)
(* drag sessions, maxCards as chosen before                              *)

BoardPrinting ==
    \/ Printed < MaxBoardPrints /\ Submit(TodoText)
    \/ \E jx \in Jitters, jy \in Jitters : PrintTimer(jx, jy, 0)

BoardRestore ==
    \E i \in 1..Len(history), jx \in Jitters, jy \in Jitters :
        maxZIndex < MaxBoardZ /\ HandleRestoreFromHistory(i, jx, jy)

BoardDrag ==
    \/ \E id \in LiveIds, g \in Grabs :
          /\ maxZIndex < MaxBoardZ
          /\ PointerDown(id, Plus(RectOrigin(LiveCard(id), comp[id]), g))
    \/ \E id \in LiveIds, p \in Pointers : PointerMove(id, p)
    \/ \E id \in LiveIds : PointerUp(id)

NextBoard == BoardPrinting \/ BoardRestore \/ BoardDrag

SpecBoard == Init /\ [][NextBoard]_vars

(* Specification of the activity on live cards between inserts: raises, *)
(* position commits and checklist clicks                               *)

OrderPrinting ==
    \/ Printed < MaxOrderPrints /\ Submit(TodoText)
    \/ \E jx \in Jitters, jy \in Jitters : PrintTimer(jx, jy, 0)

OrderActivity ==
    \/ \E id \in LiveIds : maxZIndex < MaxOrderZ /\ BringToFront(id)
    \/ \E id \in LiveIds, p \in StorePositions : UpdateCardPosition(id, p)
    \/ \E id \in LiveIds, idx \in LineIndexes : TodoLineClick(id, idx)

NextOrder == OrderPrinting \/ OrderActivity

SpecOrder == Init /\ [][NextOrder]_vars

(* Specification of the ways a card leaves the board while it is dragged: *)
(* an insert that evicts it, the timer of its discard button              *)

CancelPrinting ==
    \/ Printed < MaxCancelPrints /\ Submit(PlainText)
    \/ \E jx \in Jitters, jy \in Jitters : PrintTimer(jx, jy, 0)

CancelDrag ==
    \/ \E id \in LiveIds, g \in Grabs :
          /\ maxZIndex < MaxCancelZ
          /\ PointerDown(id, Plus(RectOrigin(LiveCard(id), comp[id]), g))
    \/ \E id \in LiveIds, p \in Pointers : PointerMove(id, p)
    \/ \E id \in LiveIds : PointerUp(id)

NextCancel == CancelPrinting \/ CancelDrag \/ Discard

SpecCancel == Init /\ [][NextCancel]_vars

\* the same board with its timers running: a setTimeout callback that is
\* pending is called
SpecCancelTimers ==
    /\ SpecCancel
    /\ WF_vars(\E t \in removeTimers : RemoveTimer(t))
    /\ WF_vars(\E jx \in Jitters, jy \in Jitters : PrintTimer(jx, jy, 0))

----------------------------------------------------------------------------
(* Claims *)

Without(seq, S) == SelectSeq(seq, LAMBDA x : x \notin S)

Max(a, b) == IF a > b THEN a ELSE b

Min(a, b) == IF a < b THEN a ELSE b

\* C1: with maxCards fixed, after every insert (a step that brings a new id
\* into the live collection) the live collection holds at most maxCards cards,
\* and the cards that left it stand at the end of history in the order in
\* which they stood in the live collection, that is, the order of their inserts.
C1_AfterInsert ==
    Ids(cards') \ Ids(cards) # {} =>
        /\ Len(cards') <= maxCards
        /\ IdSeq(history') =
               Without(IdSeq(history), Ids(cards'))
                   \o Without(IdSeq(cards), Ids(cards'))

C1_BoundedFifo == [][C1_AfterInsert]_vars

\* an insert has evicted a card behind an earlier evicted one
C1_Witness ==
    /\ Len(cards) = maxCards
    /\ Len(history) >= 2
    /\ clock > maxCards + 2

\* C2: after n prints on a board that started empty, with maxCards = m, the
\* live collection is the last m printed cards and history the first n - m,
\* both in the order of printing (ids are the print times 1, 2, ..., n).
C2_StrictFifo ==
    LET n == clock - 1
        evicted == Max(n - maxCards, 0)
    IN  /\ IdSeq(cards) = [i \in 1..(n - evicted) |-> evicted + i]
        /\ IdSeq(history) = [i \in 1..evicted |-> i]

\* A, B, C, D printed with maxCards = 2
C2_Witness ==
    /\ maxCards = 2
    /\ clock = 5
    /\ IdSeq(cards) = <<3, 4>>
    /\ IdSeq(history) = <<1, 2>>

\* C5: a restore appends the restored card last to the live collection and,
\* when that exceeds maxCards, moves the oldest live cards from the front of
\* the live collection to the end of history.
C5_AfterRestore ==
    \A id \in Ids(history) \ Ids(cards) :
        id \in Ids(cards') =>
            LET all == Append(IdSeq(cards), id)
                excess == Max(Len(all) - maxCards, 0)
            IN  /\ IdSeq(cards') = Drop(all, excess)
                /\ IdSeq(history') =
                       Without(IdSeq(history), {id}) \o Take(all, excess)

C5_RestoreOverflow == [][C5_AfterRestore]_vars

\* maxCards = 1, X and Y printed, X restored: live = [X], history = [Y]
C5_Witness ==
    /\ maxCards = 1
    /\ IdSeq(cards) = <<1>>
    /\ IdSeq(history) = <<2>>

Entry(s, id) == CHOOSE c \in Find(s, id) : TRUE

\* C3: no id is in the live collection and in history at once, no id is twice
\* in either, and an id that is in one of them stays in one of them through
\* every step except the firing of its discard; a printed card enters one.
C3_Disjoint ==
    /\ Ids(cards) \cap Ids(history) = {}
    /\ Cardinality(Ids(cards)) = Len(cards)
    /\ Cardinality(Ids(history)) = Len(history)

C3_Discarded(id) == \E t \in removeTimers : t.id = id /\ RemoveTimer(t)

C3_Kept ==
    /\ \A id \in Ids(cards) \cup Ids(history) :
          id \in Ids(cards') \cup Ids(history') \/ C3_Discarded(id)
    /\ clock' # clock => clock \in Ids(cards') \cup Ids(history')

C3_ExactlyOne == []C3_Disjoint /\ [][C3_Kept]_vars

\* card 1 was toggled, archived and restored, card 2 is archived
C3_Witness ==
    /\ Ids(cards) = {1}
    /\ Ids(history) = {2}
    /\ cards[1].todoStates # NoTodoStates
    /\ cards[1].position = RestorePosition(0, 0)

\* C4: a card enters history with the id, text and todoStates it has in the
\* live collection, keeps them while it is in history, and a restore puts it
\* into the live collection with the same three and leaves no entry with its
\* id in history.
C4_Content(c) == <<c.id, c.text, c.todoStates>>

C4_Step ==
    \A id \in Ids(cards) \cup Ids(history) :
        /\ id \in Ids(cards) /\ id \in Ids(history') =>
              C4_Content(Entry(history', id)) = C4_Content(Entry(cards, id))
        /\ id \in Ids(history) /\ id \in Ids(history') =>
              C4_Content(Entry(history', id)) = C4_Content(Entry(history, id))
        /\ id \in Ids(history) /\ id \in Ids(cards') =>
              /\ C4_Content(Entry(cards', id)) = C4_Content(Entry(history, id))
              /\ id \notin Ids(history')

C4_RestoreInverse == [][C4_Step]_vars

\* a restored card that carries a checklist entry
C4_Witness ==
    \E i \in 1..Len(cards) :
        /\ cards[i].position = RestorePosition(0, 0)
        /\ IsCompleted(cards[i].todoStates, 0)

\* C6: a pointer-down on a live card (the call of bringToFront) gives the card
\* the z-index maxZIndex + 1, makes that the tracked maximum, and the card's
\* z-index is then greater than that of every other live card.
C6_Step ==
    \A id \in LiveIds :
        ~comp[id].isDragging /\ id \in DOMAIN comp' /\ comp'[id].isDragging =>
            /\ Entry(cards', id).zIndex = maxZIndex + 1
            /\ maxZIndex' = maxZIndex + 1
            /\ \A i \in 1..Len(cards') :
                  cards'[i].id # id => cards'[i].zIndex < Entry(cards', id).zIndex

C6_BringToFront == [][C6_Step]_vars

\* the older of two live cards was raised above the newer one
C6_Witness ==
    /\ Len(cards) = 2
    /\ comp[cards[1].id].isDragging
    /\ cards[1].zIndex = maxZIndex
    /\ cards[1].zIndex > cards[2].zIndex

\* C7: after a pointer-down on a card at position P with the pointer at p0,
\* every move with the pointer at p puts the card at P + (p - p0).
C7_Step ==
    \A id \in LiveIds, p \in Pointers :
        PointerMove(id, p) =>
            comp'[id].style =
                Plus(LiveCard(id).position, Minus(p, comp[id].pointerDownAt))

C7_RelativeToGrab == [][C7_Step]_vars

\* C8: a pointer-up on a dragged card whose position is inside the archive
\* zone (the zone rectangle expanded by the tolerance, tested as handleCardDrag
\* tests it) removes the card from the live collection and appends it last to
\* history.
C8_Step ==
    \A id \in LiveIds :
        PointerUp(id) /\ OverDropZone(comp[id].style) =>
            /\ id \notin Ids(cards')
            /\ history' # <<>>
            /\ history'[Len(history')].id = id

C8_DropArchives == [][C8_Step]_vars

\* the target of the claim: the text, or its first 80 characters and "..."
C9_Target(text) ==
    IF Len(text) <= 80 THEN text
    ELSE SubSeq(text, 1, 80) \o <<".", ".", ".">>

\* C9: the revealed string of a mounted card is a prefix of the target T (the
\* text when its length is at most 80, else its first 80 characters and
\* "..."), the card is typing exactly while fewer than N = Len(T) characters
\* are revealed, and no tick can fire once it is done; the reveal starts at
\* length 0 and every change of it is a tick of a typing card that adds one
\* character; and a mounted card reaches Done with all of T revealed unless
\* it leaves the board first, so that exactly N ticks occur.
C9_Prefix ==
    \A id \in LiveIds :
        LET T == C9_Target(LiveCard(id).text)
            typed == comp[id].typedContent
        IN  /\ Len(typed) <= Len(T)
            /\ typed = SubSeq(T, 1, Len(typed))
            /\ comp[id].isTyping <=> Len(typed) < Len(T)
            /\ ~comp[id].isTyping => ~ENABLED TypingTick(id)

C9_Tick ==
    \A id \in DOMAIN comp' :
        IF id \in LiveIds
        THEN comp'[id].typedContent # comp[id].typedContent =>
                /\ comp[id].isTyping
                /\ Len(comp'[id].typedContent) = Len(comp[id].typedContent) + 1
        ELSE comp'[id].typedContent = <<>>

C9_Done(id) ==
    /\ ~comp[id].isTyping
    /\ comp[id].typedContent = C9_Target(LiveCard(id).text)

C9_Completes ==
    \A id \in 1..MaxTypingPrints :
        (id \in LiveIds) ~> (id \notin LiveIds \/ C9_Done(id))

C9_TypingAnimation == []C9_Prefix /\ [][C9_Tick]_vars /\ C9_Completes

\* a card with a text of 81 characters is done: 83 characters are revealed
C9_Witness ==
    \E id \in LiveIds :
        /\ Len(LiveCard(id).text) = 81
        /\ Len(comp[id].typedContent) = 83
        /\ ~comp[id].isTyping

\* indexes of the checklist lines of a card
C10_TodoLines(card) ==
    {i \in 0..(Len(Split(card.text)) - 1) : IsTodoLine(Split(card.text)[i + 1])}

\* the live card after line i was set completed and then not completed
C10_After(id, i) ==
    Entry(ToggleCard(ToggleCard(cards, id, i, TRUE), id, i, FALSE), id)

\* C10 as stated: for every live checklist card and every checklist line i
\* that is not completed, setting line i completed and then not completed
\* leaves todoStates equal to the value it had before, and the text unchanged.
C10_Original ==
    \A id \in Ids(cards) :
        \A i \in C10_TodoLines(Entry(cards, id)) :
            ~IsCompleted(Entry(cards, id).todoStates, i) =>
                /\ C10_After(id, i).todoStates = Entry(cards, id).todoStates
                /\ C10_After(id, i).text = Entry(cards, id).text

\* C10 (amended): setting line i completed and then not completed leaves the
\* text and the completion of every line as they were, and todoStates is the
\* prior value with the entry i -> false (the prior value only if it held
\* that entry already).
C10_TwoToggles ==
    \A id \in Ids(cards) :
        \A i \in C10_TodoLines(Entry(cards, id)) :
            LET card == Entry(cards, id)
                after == C10_After(id, i)
            IN  ~IsCompleted(card.todoStates, i) =>
                    /\ after.text = card.text
                    /\ \A j \in 0..(Len(Split(card.text)) - 1) :
                          IsCompleted(after.todoStates, j)
                              = IsCompleted(card.todoStates, j)
                    /\ DOMAIN after.todoStates
                          = DOMAIN card.todoStates \cup {IndexKey(i)}
                    /\ after.todoStates[IndexKey(i)] = FALSE
                    /\ \A k \in DOMAIN card.todoStates \ {IndexKey(i)} :
                          after.todoStates[k] = card.todoStates[k]

\* every step keeps the text of a live card, and a step that changes its
\* todoStates flips the completion of one checklist line and nothing else
C10_Toggle ==
    \A id \in Ids(cards) \cap Ids(cards') :
        LET a == Entry(cards, id)
            b == Entry(cards', id)
        IN  /\ b.text = a.text
            /\ b.todoStates # a.todoStates =>
                  \E i \in C10_TodoLines(a) :
                      /\ DOMAIN b.todoStates
                            = DOMAIN a.todoStates \cup {IndexKey(i)}
                      /\ b.todoStates[IndexKey(i)] = ~IsCompleted(a.todoStates, i)
                      /\ \A k \in DOMAIN a.todoStates \ {IndexKey(i)} :
                            b.todoStates[k] = a.todoStates[k]

C10_RoundTrip == []C10_TwoToggles /\ [][C10_Toggle]_vars

\* line 2 of a new card was set completed and then not completed, another
\* line is completed
C10_Witness ==
    \E id \in Ids(cards) :
        /\ DOMAIN Entry(cards, id).todoStates = {IndexKey(0), IndexKey(2)}
        /\ Entry(cards, id).todoStates[IndexKey(0)]
        /\ ~Entry(cards, id).todoStates[IndexKey(2)]

\* the keys of the card's todoStates are indexes of checklist lines of its text
C11_Keys(card) ==
    \A k \in DOMAIN card.todoStates :
        \E i \in 0..(Len(Split(card.text)) - 1) :
            /\ k = IndexKey(i)
            /\ TrimStart(Split(card.text)[i + 1]) # <<>>
            /\ Head(TrimStart(Split(card.text)[i + 1])) = BOX

\* C11: in every reachable state the keys of todoStates of every live and
\* every archived card are indexes of lines of its text whose trimmed form
\* starts with the marker; a click on another line creates no entry.
C11_KeysAreChecklistLines ==
    /\ \A i \in 1..Len(cards) : C11_Keys(cards[i])
    /\ \A i \in 1..Len(history) : C11_Keys(history[i])

\* an archived card carries entries for both of its checklist lines and the
\* live card, clicked on each of its lines, an entry for the last line only
C11_Witness ==
    /\ \E i \in 1..Len(history) :
          DOMAIN history[i].todoStates = {IndexKey(0), IndexKey(2)}
    /\ \E i \in 1..Len(cards) :
          DOMAIN cards[i].todoStates = {IndexKey(2)}

\* C12: a restore of a card whose id is not in history leaves the live
\* collection, history and the tracked maximum z-index unchanged.
C12_Step ==
    \A card \in StoreRows, jx \in Jitters, jy \in Jitters :
        card.id \notin Ids(history) /\ RestoreCard(card, jx, jy) =>
            UNCHANGED <<cards, history, maxZIndex>>

C12_RestoreAbsent == [][C12_Step]_vars

\* C13: in no reachable state are two cards in the Dragging state at once (a
\* pointer-down on another card while one is dragged is ignored).
C13_Exclusive ==
    Cardinality({id \in LiveIds : comp[id].isDragging}) <= 1

\* C18: bringToFront with an id that is not in the live collection changes no
\* card's z-index and leaves the tracked maximum z-index unchanged.
C18_Step ==
    \A id \in StoreIds :
        id \notin Ids(cards) /\ BringToFront(id) =>
            UNCHANGED <<cards, maxZIndex>>

C18_BringAbsentToFront == [][C18_Step]_vars

C14_Known == Ids(cards) \cup Ids(history)

\* C14: at most one delayed insert is pending, and one is pending exactly
\* while isPrinting is true; while it is, neither the print button nor the
\* batch button is accepted and the batch loop is not at a print step; a
\* submit is accepted only when none is pending, and every delayed insert
\* creates exactly one card, no other step creating any.
C14_OneInFlight ==
    /\ Len(printTimers) <= 1
    /\ isPrinting <=> printTimers # <<>>
    /\ isPrinting =>
          /\ ~ENABLED Submit(PlainText)
          /\ ~ENABLED HandlePrintAll(MaxBatchMessages)
          /\ ~ENABLED BatchPrint

C14_Step ==
    /\ Len(printTimers') > Len(printTimers) =>
          /\ ~isPrinting
          /\ Len(printTimers') = 1
          /\ C14_Known' = C14_Known
    /\ Len(printTimers') < Len(printTimers) =>
          /\ Len(printTimers') = Len(printTimers) - 1
          /\ C14_Known' = C14_Known \cup {clock}
          /\ clock \notin C14_Known
          /\ Len(cards') + Len(history') = Len(cards) + Len(history) + 1
    /\ Len(printTimers') = Len(printTimers) => C14_Known' = C14_Known

C14_SubmitInFlight == []C14_OneInFlight /\ [][C14_Step]_vars

\* a manual print and the first message of a batch are on the board, the
\* insert of the second message is pending
C14_Witness ==
    /\ batch.on
    /\ batch.left = 1
    /\ isPrinting
    /\ \E i \in 1..Len(cards) : cards[i].text = BatchText
    /\ \E i \in 1..Len(history) : history[i].text = PlainText

\* C15: the overflow check of a delayed insert uses the maxCards in force when
\* the insert runs: the live collection after it is the live collection
\* before it with the new card appended, cut from the front to that maxCards.
C15_Step ==
    Len(printTimers') < Len(printTimers) =>
        LET all == Append(IdSeq(cards), clock)
            excess == Max(Len(all) - maxCards, 0)
        IN  IdSeq(cards') = Drop(all, excess)

C15_SettingObserved == [][C15_Step]_vars

\* C16: the promise of generateWithPrompt never rejects and resolves to a
\* string, for every prompt and every outcome of the backend call; when the
\* custom API is used and the call fails (fetch rejects or the status is not
\* OK) it resolves to "Connection lost... signal weak.".
C16_String ==
    /\ ~gen.settled.rejected
    /\ gen.settled # Pending => gen.settled.value.type = "string"

C16_Step ==
    \A outcome \in Outcomes, k \in 0..(RandomSteps - 1) :
        /\ GenerateSettles(outcome, k)
        /\ gen.settings.apiUrl /\ gen.settings.apiToken
        /\ outcome.kind \in {"network", "status"}
        => /\ gen'.settled = Resolved(Str(FALLBACK))
           /\ ~gen'.isGenerating

C16_NeverFails == []C16_String /\ [][C16_Step]_vars

\* a request to the custom API was answered by the fallback string
C16_Witness ==
    /\ gen.settings.apiUrl /\ gen.settings.apiToken
    /\ ~gen.isGenerating
    /\ gen.settled = Resolved(Str(FALLBACK))

\* C17: handleRemoveCard for the id of a live card leaves the id in neither
\* the live collection nor history, leaves history unchanged, and leaves the
\* other live cards, each as it was, in their order.
C17_Step ==
    \A id \in Ids(cards) :
        HandleRemoveCard(id, selectedCard) =>
            /\ id \notin Ids(cards') \cup Ids(history')
            /\ history' = history
            /\ \E k \in 1..Len(cards) :
                  /\ cards[k].id = id
                  /\ cards' = SubSeq(cards, 1, k - 1)
                                  \o SubSeq(cards, k + 1, Len(cards))

C17_RemoveDeletes == [][C17_Step]_vars

\* of two printed cards the first was removed: the second is the only live
\* card and history is empty
C17_Witness ==
    /\ clock = 3
    /\ IdSeq(cards) = <<2>>
    /\ history = <<>>
    /\ printTimers = <<>>

\* C19: updateCardPosition, handleRemoveCard, handleCardDragEnd and
\* handleTodoStateChange for an id that is not in the live collection leave
\* the live collection and history unchanged.
C19_Step ==
    \A id \in StoreIds \ Ids(cards) :
        \/ \E p \in StorePositions : UpdateCardPosition(id, p)
        \/ HandleRemoveCard(id, selectedCard)
        \/ HandleCardDragEnd(id)
        \/ \E completed \in BOOLEAN : HandleTodoStateChange(id, 0, completed)
        => UNCHANGED <<cards, history>>

C19_NotFound == [][C19_Step]_vars

\* the card of the detail view left the live collection and was toggled
\* after that: its entry in history has no checklist state
C19_Witness ==
    /\ selectedCard # NoCard
    /\ selectedCard.id \notin Ids(cards)
    /\ selectedCard.todoStates # NoTodoStates
    /\ \E i \in 1..Len(history) :
          /\ history[i].id = selectedCard.id
          /\ history[i].todoStates = NoTodoStates

\* where the pointer of a drag session is: at its last move, or where it went
\* down if it has not moved
C20_PointerAt(c) == IF c.lastMove = <<>> THEN c.pointerDownAt ELSE c.lastMove

\* C20: a pointer-up on a dragged card stores for the card the pointer
\* position minus the offset taken at pointer-down, the position a move to
\* the release point reports (checked on the card when it stays live), and a
\* pointer-up that follows the pointer-down directly leaves the stored
\* position unchanged.
C20_Step ==
    \A id \in LiveIds :
        PointerUp(id) =>
            /\ \A c \in Find(cards', id) :
                  c.position = DragPosition(comp[id], C20_PointerAt(comp[id]))
            /\ comp[id].lastMove = <<>> =>
                  \A c \in Find(cards', id) \cup Find(history', id) :
                      c.position = LiveCard(id).position

C20_EndCommits == [][C20_Step]_vars

\* the records stored for an id, live or archived
C21_Stored(live, archived, id) == Find(live, id) \cup Find(archived, id)

\* C21: a move of a drag session leaves the live collection (every stored
\* position, the order) and history unchanged; the stored position of a card
\* changes only in a pointer-up on that card or in a restore of that card.
C21_Step ==
    /\ \A id \in LiveIds, p \in Pointers :
          PointerMove(id, p) => UNCHANGED <<cards, history>>
    /\ \A id \in Ids(cards) \cup Ids(history) :
          (\E c \in C21_Stored(cards, history, id),
              d \in C21_Stored(cards', history', id) :
                  c.position # d.position)
          => \/ id \in LiveIds /\ PointerUp(id)
             \/ id \in Ids(history) /\ id \in Ids(cards')

C21_MovesDoNotCommit == [][C21_Step]_vars

\* a dragged card was moved off its stored position and is not released
C21_Witness ==
    \E id \in LiveIds :
        /\ comp[id].isDragging
        /\ comp[id].lastMove # <<>>
        /\ comp[id].style # LiveCard(id).position

\* C22: when the timer of a submit inserts its card, the card is the last
\* live card and its zIndex is greater than that of every other live card.
C22_Step ==
    \A jx \in Jitters, jy \in Jitters :
        PrintTimer(jx, jy, 0) =>
            LET n == Len(cards')
            IN  /\ n > 0
                /\ cards'[n].id = clock
                /\ \A i \in 1..(n - 1) : cards'[i].zIndex < cards'[n].zIndex

C23_Mounted == DOMAIN comp = Ids(cards)

C23_Step ==
    /\ \A id \in DOMAIN comp' :
          comp'[id].isDragging =>
              \/ id \in DOMAIN comp /\ comp[id].isDragging
              \/ \E p0 \in {comp'[id].pointerDownAt} : PointerDown(id, p0)
    /\ \A id \in Ids(history) \ Ids(cards) :
          /\ ~PointerUp(id)
          /\ \A p \in Pointers : ~PointerMove(id, p)
          /\ \A c \in Find(history, id), d \in Find(history', id) :
                c.position = d.position

C23_DragCancelled == []C23_Mounted /\ [][C23_Step]_vars

\* a card was evicted to history while it was dragged over the archive
\* button: the flag of its last move is still set, no component is dragging
C23_Witness ==
    /\ isDraggingToHistory
    /\ history # <<>>
    /\ cards # <<>>
    /\ \A id \in LiveIds : ~comp[id].isDragging

\* C24: after a click on the discard button of a live card, the card is
\* eventually in neither the live collection nor history.
C24_Destroyed ==
    \A id \in 1..MaxCancelPrints :
        (\E t \in removeTimers : t.id = id)
            ~> (id \notin Ids(cards) \cup Ids(history))

\* C25: the timers of a component that was torn down have no effect: no
\* typing tick reveals a character for a card that is not live, and a discard
\* timer whose component is gone (the card is not live, or its component is
\* a later one, which is not exiting) leaves the live collection and history
\* unchanged.
C25_Step ==
    /\ \A id \in Ids(history) \ Ids(cards) : ~TypingTick(id)
    /\ \A t \in removeTimers :
          /\ t.id \in DOMAIN comp => ~comp[t.id].isExiting
          /\ RemoveTimer(t)
          => UNCHANGED <<cards, history>>

C25_NoEffectAfterTeardown == [][C25_Step]_vars

\* C26: bringToFront, updateCardPosition and a checklist click leave the
\* order of the live collection unchanged, and every card an insert moves to
\* history was inserted before every card that stays live.
C26_Step ==
    /\ (\E id \in LiveIds :
            \/ BringToFront(id)
            \/ \E p \in StorePositions : UpdateCardPosition(id, p)
            \/ \E idx \in LineIndexes : TodoLineClick(id, idx))
       => IdSeq(cards') = IdSeq(cards)
    /\ \A i \in (Len(history) + 1)..Len(history'), j \in 1..Len(cards') :
          history'[i].id < cards'[j].id

C26_FifoNotLru == [][C26_Step]_vars

\* the card evicted last had been brought to front, moved and toggled, and
\* was above a card that stays live
C26_Witness ==
    /\ Len(cards) >= 2
    /\ history # <<>>
    /\ LET c == history[Len(history)]
       IN  /\ c.zIndex > cards[1].zIndex
           /\ c.position \in StorePositions
           /\ c.todoStates # NoTodoStates

\* C27: the zIndex of every live card is at most maxZIndex, and no step
\* decreases maxZIndex.
C27_Bounded == \A i \in 1..Len(cards) : cards[i].zIndex <= maxZIndex

C27_Step == maxZIndex' >= maxZIndex

C27_MaxTracked == []C27_Bounded /\ [][C27_Step]_vars

\* a card that was restored is being dragged and holds the maximum
C27_Witness ==
    \E id \in LiveIds :
        /\ comp[id].isDragging
        /\ LiveCard(id).zIndex = maxZIndex
        /\ \E jx \in Jitters, jy \in Jitters :
              LiveCard(id).position = RestorePosition(jx, jy)

\* the drag session of card id is active and its last move reported a
\* position over the archive button
C28_OverZone(id) ==
    /\ comp[id].isDragging
    /\ comp[id].lastMove # <<>>
    /\ OverDropZone(DragPosition(comp[id], comp[id].lastMove))

\* C28: isDraggingToHistory is true only while the session of some card is
\* active and its move reported a position in the archive zone, and a
\* pointer-up moves a card to history only if the card's own last move
\* reported such a position.
C28_Flag == isDraggingToHistory => \E id \in LiveIds : C28_OverZone(id)

C28_Step ==
    \A id \in LiveIds :
        PointerUp(id) /\ id \in Ids(history') => C28_OverZone(id)

C28_OwnMovesOnly == []C28_Flag /\ [][C28_Step]_vars

\* C29: in every reachable state the live collection holds at most maxCards
\* cards, also after the settings panel has lowered maxCards.
C29_WithinCapacity == Len(cards) <= maxCards

\* C30: while the detail view is open, the checklist state it shows (line by
\* line, completed or not) is that of every stored card with the id of its
\* card, live or in history.
C30_DetailInSync ==
    selectedCard # NoCard =>
        \A c \in Find(cards, selectedCard.id) \cup Find(history, selectedCard.id),
           idx \in ChecklistLines :
            IsCompleted(c.todoStates, idx)
                = IsCompleted(selectedCard.todoStates, idx)

====
